---- MODULE Spec2Model ----
(***************************************************************************)
(* Receipt composition and thermal-print pipeline of doit-view:            *)
(*   compose.py     text block renderer and layout compositor              *)
(*   printer_io.py  1bpp conversion, raster frame encoder, serial transport*)
(*   ui_booth.py    the booth's capture / print / reset handlers           *)
(* An image is modelled by its size (and, for 1-bit bitmaps, its pixels);  *)
(* a raised Python exception is an image or result with ok = FALSE.        *)
(***************************************************************************)
EXTENDS Integers, Sequences, FiniteSets, TLC

VARIABLES
    cIn, cpc, blocks, canvas, pastes, cy, ci,      \* compose_receipt_two_photos
    tIn, tpc, tOut,                                \* centered_text_block_safe
    rIn, rpc, bw, rdata, frame,                    \* _pil_to_raster_bytes_bw
    pIn, ppc, pdata, dev, ser, serLog, pOff, pRes, \* print_image_usb
    bpc, captured_images, last_frame, chk_printer, chk_auto_reset, copies_combo,
    timers, status, photos_pil, receipt, saved, copies, success_cnt, bi,
    last_msg, callLog,                             \* BoothCam
    uIn, upc, uOut                                 \* the helpers called on their own

composeVars == <<cIn, cpc, blocks, canvas, pastes, cy, ci>>
textVars == <<tIn, tpc, tOut>>
rasterVars == <<rIn, rpc, bw, rdata, frame>>
printVars == <<pIn, ppc, pdata, dev, ser, serLog, pOff, pRes>>
utilVars == <<uIn, upc, uOut>>
boothUi == <<captured_images, last_frame, chk_printer, chk_auto_reset, copies_combo, timers>>
boothLocals == <<photos_pil, receipt, copies, success_cnt, bi, last_msg, callLog>>
boothVars == <<bpc, captured_images, last_frame, chk_printer, chk_auto_reset, copies_combo,
               timers, status, photos_pil, receipt, saved, copies, success_cnt, bi,
               last_msg, callLog>>
vars == <<cIn, cpc, blocks, canvas, pastes, cy, ci, tIn, tpc, tOut,
          rIn, rpc, bw, rdata, frame,
          pIn, ppc, pdata, dev, ser, serLog, pOff, pRes,
          bpc, captured_images, last_frame, chk_printer, chk_auto_reset, copies_combo,
          timers, status, photos_pil, receipt, saved, copies, success_cnt, bi,
          last_msg, callLog, uIn, upc, uOut>>

(***************************************************************************)
(* Bounds of the model.                                                    *)
(***************************************************************************)
MaxTextLen == 3
MaxQrVersion == 2
PatternPeriod == 5
MaxDense == 64
MaxTimers == 2

Min(a, b) == IF a <= b THEN a ELSE b
Max(a, b) == IF a >= b THEN a ELSE b

RECURSIVE SumHeights(_)
SumHeights(bs) == IF bs = <<>> THEN 0 ELSE Head(bs).h + SumHeights(Tail(bs))

(***************************************************************************)
(* PIL primitives, by size.                                                *)
(***************************************************************************)
Raised == [ok |-> FALSE, w |-> 0, h |-> 0]
Img(w, h) == [ok |-> TRUE, w |-> w, h |-> h]

\* Image.new(mode, (w, h)): a negative size raises ValueError.
ImageNew(w, h) == IF w < 0 \/ h < 0 THEN Raised ELSE Img(w, h)

\* Image.resize((w, h)): the same size is a copy; a size below 1 raises.
ImageResize(im, w, h) ==
    IF ~im.ok THEN Raised
    ELSE IF im.w = w /\ im.h = h THEN im
    ELSE IF w < 1 \/ h < 1 THEN Raised
    ELSE Img(w, h)

\* Image.crop((l, t, r, b)): the box's size, whatever the image holds.
ImageCrop(im, l, t, r, b) ==
    IF ~im.ok \/ r < l \/ b < t THEN Raised ELSE Img(r - l, b - t)

\* int(a * (b / c)) in double arithmetic: the quotient is rounded before it is
\* multiplied, so where a * b / c is an integer the product can fall just
\* short of it and truncate to one less.  FloatShort lists the arguments used
\* here for which it does.
FloatShort == {<<303, 160, 303>>, <<303, 40, 303>>, <<562, 26, 562>>, <<81, 562, 27>>}

\* round(a * b / c), halves to the even neighbour.
RoundDiv(n, d) ==
    LET q == n \div d
        r2 == 2 * (n % d)
    IN  IF r2 < d THEN q ELSE IF r2 > d THEN q + 1 ELSE IF q % 2 = 0 THEN q ELSE q + 1

IntMulDivRounded(a, b, c) == RoundDiv(a * b, c)

IntMulDiv(a, b, c) == ((a * b) \div c) - (IF <<a, b, c>> \in FloatShort THEN 1 ELSE 0)

(***************************************************************************)
(* compose.py: basic utilities.                                            *)
(***************************************************************************)
fit_width_keep_aspect(im, width) ==
    IF ~im.ok THEN Raised
    ELSE IF im.w = width THEN im
    ELSE ImageResize(im, width, IntMulDiv(im.h, width, im.w))

add_letterbox(im, width, pad_px) ==
    IF ~im.ok THEN Raised
    ELSE IF pad_px <= 0 THEN im
    ELSE ImageNew(width, im.h + pad_px * 2)

\* scale = min(max_w / w, max_h / h, 1.0), compared by cross-multiplication.
\* The result is [none |-> TRUE] when the file cannot be opened.
NoLogo == [none |-> TRUE, im |-> Raised]
load_logoUncapped(src, max_w, max_h) ==
    IF ~src.ok THEN NoLogo
    ELSE LET byW == max_w * src.h <= max_h * src.w
         IN  [none |-> FALSE,
              im |-> ImageResize(src,
                         IF byW THEN max_w ELSE (src.w * max_h) \div src.h,
                         IF byW THEN (src.h * max_w) \div src.w ELSE max_h)]

load_logo(src, max_w, max_h) ==
    IF ~src.ok THEN NoLogo
    ELSE LET w == src.w
             h == src.h
             byW == max_w * h <= max_h * w /\ max_w <= w
             byH == ~byW /\ max_h <= h
             nw == IF byW THEN IntMulDiv(w, max_w, w) ELSE IF byH THEN IntMulDiv(w, max_h, h) ELSE w
             nh == IF byW THEN IntMulDiv(h, max_w, w) ELSE IF byH THEN IntMulDiv(h, max_h, h) ELSE h
         IN  [none |-> FALSE, im |-> ImageResize(src, nw, nh)]

QR_BOX_SIZE == 9
QR_BORDER == 2
\* qr.make_image(): (modules + 2 * border) * box_size pixels square, with
\* 17 + 4 * version modules; version 0 stands for a payload the encoder refuses.
QrNatural(version) ==
    IF version = 0 THEN Raised
    ELSE LET side == (17 + 4 * version + 2 * QR_BORDER) * QR_BOX_SIZE
         IN  Img(side, side)

make_qr_imageUpscaled(version, target_w) ==
    fit_width_keep_aspect(QrNatural(version), target_w)

make_qr_image(version, target_w) ==
    LET img == QrNatural(version)
        tw == Min(target_w, img.w)
    IN  fit_width_keep_aspect(img, tw)

h_rule(width, height) == ImageNew(width, height)

spacer(height, width) == ImageNew(width, height)

(***************************************************************************)
(* compose.py: fonts and the text block.  A text is a sequence of          *)
(* characters; a font is its nominal size and its glyph advances.          *)
(***************************************************************************)
Chars == {"a", "W", " ", "\n"}

\* ImageFont.truetype(path, size), or load_default() (nominal size 22 by
\* getattr's default) when the file cannot be loaded.
load_font(fontOk, size) ==
    IF fontOk THEN [size |-> size, proportional |-> TRUE]
    ELSE [size |-> 22, proportional |-> FALSE]

\* A glyph's advance: a narrow Latin glyph, a full-width glyph, a space.
Advance(font, c) ==
    IF ~font.proportional THEN 6
    ELSE IF c = "W" THEN font.size
    ELSE IF c = " " THEN font.size \div 4
    ELSE font.size \div 2

RECURSIVE textlength(_, _)
textlength(line, font) ==
    IF line = <<>> THEN 0 ELSE Advance(font, Head(line)) + textlength(Tail(line), font)

\* str.splitlines()
RECURSIVE splitlines(_)
splitlines(t) ==
    IF t = <<>> THEN <<>>
    ELSE LET nl == {i \in 1..Len(t) : t[i] = "\n"}
         IN  IF nl = {} THEN <<t>>
             ELSE LET k == CHOOSE i \in nl : \A j \in nl : i <= j
                  IN  <<SubSeq(t, 1, k - 1)>> \o splitlines(SubSeq(t, k + 1, Len(t)))

IsBlank(chunk) == \A i \in 1..Len(chunk) : chunk[i] = " "

\* TextWrapper._split_chunks: maximal runs of blanks and of non-blanks.
RECURSIVE SplitChunks(_)
SplitChunks(line) ==
    IF line = <<>> THEN <<>>
    ELSE LET sp == (line[1] = " ")
             brk == {i \in 1..Len(line) : (line[i] = " ") # sp}
             n == IF brk = {} THEN Len(line)
                  ELSE (CHOOSE i \in brk : \A j \in brk : i <= j) - 1
         IN  <<SubSeq(line, 1, n)>> \o SplitChunks(SubSeq(line, n + 1, Len(line)))

RECURSIVE JoinChunks(_)
JoinChunks(cs) == IF cs = <<>> THEN <<>> ELSE Head(cs) \o JoinChunks(Tail(cs))

\* The inner loop of _wrap_chunks: take chunks while they fit.
RECURSIVE FillLine(_, _, _, _)
FillLine(chunks, width, cur, curLen) ==
    IF chunks # <<>> /\ curLen + Len(Head(chunks)) <= width
    THEN FillLine(Tail(chunks), width, Append(cur, Head(chunks)), curLen + Len(Head(chunks)))
    ELSE [cur |-> cur, rest |-> chunks, len |-> curLen]

\* TextWrapper._wrap_chunks with drop_whitespace and break_long_words.
RECURSIVE WrapChunks(_, _, _)
WrapChunks(chunks, width, lines) ==
    IF chunks = <<>> THEN lines
    ELSE LET c0 == IF IsBlank(Head(chunks)) /\ lines # <<>> THEN Tail(chunks) ELSE chunks
             f == FillLine(c0, width, <<>>, 0)
             long == f.rest # <<>> /\ Len(Head(f.rest)) > width
             spaceLeft == IF width < 1 THEN 1 ELSE width - f.len
             cur1 == IF long THEN Append(f.cur, SubSeq(Head(f.rest), 1, spaceLeft)) ELSE f.cur
             rest1 == IF long
                      THEN <<SubSeq(Head(f.rest), spaceLeft + 1, Len(Head(f.rest)))>>
                           \o Tail(f.rest)
                      ELSE f.rest
             cur2 == IF cur1 # <<>> /\ IsBlank(cur1[Len(cur1)])
                     THEN SubSeq(cur1, 1, Len(cur1) - 1) ELSE cur1
             lines1 == IF cur2 # <<>> THEN Append(lines, JoinChunks(cur2)) ELSE lines
         IN  WrapChunks(rest1, width, lines1)

\* textwrap.wrap(line, width=max_chars)
textwrap_wrap(line, width) == WrapChunks(SplitChunks(line), width, <<>>)

\* lines 81-84: every input line wrapped, an empty result kept as one line.
WrappedOnly(line, max_chars) == textwrap_wrap(line, max_chars)

WrappedOrEmpty(line, max_chars) ==
    LET wrapped == textwrap_wrap(line, max_chars)
    IN  IF wrapped # <<>> THEN wrapped ELSE << <<>> >>

RECURSIVE WrapLines(_, _)
WrapLines(ls, max_chars) ==
    IF ls = <<>> THEN <<>>
    ELSE WrappedOrEmpty(Head(ls), max_chars) \o WrapLines(Tail(ls), max_chars)

\* int(size * 1.3)
LineHeight(font) == (font.size * 13) \div 10

MaxChars(width, font) == Max(1, width \div Max(6, font.size \div 2))

\* lines 93-101: where each line is drawn, and how wide it measures.
DrawLines(lines, width, font, pad) ==
    [k \in 1..Len(lines) |->
        LET tw == textlength(lines[k], font)
        IN  [x |-> Max(0, (width - (tw + 2)) \div 2),
             y |-> pad + (k - 1) * LineHeight(font),
             tw |-> tw]]

\* The returned image: the work surface (width + safety_px wide) cropped.
CropToWidthUncropped(img, width, total_h) == img

CropToWidth(img, width, total_h) == ImageCrop(img, 0, 0, width, total_h)

centered_text_block_safe(text, width, font, pad, safety_px) ==
    LET lines == WrapLines(splitlines(text), MaxChars(width, font))
        total_h == pad * 2 + LineHeight(font) * Len(lines)
        work_w == width + safety_px
        img == IF width < 0 THEN Raised ELSE ImageNew(work_w, total_h)
        out == CropToWidth(img, width, total_h)
    IN  [ok |-> out.ok, w |-> out.w, h |-> out.h,
         lines |-> lines, draws |-> DrawLines(lines, width, font, pad)]

(***************************************************************************)
(* compose.py: compose_receipt_two_photos.                                 *)
(***************************************************************************)
Blk(kind, im) == [kind |-> kind, ok |-> im.ok, w |-> im.w, h |-> im.h]

WorkingWidth(in) == in.paper_width - 2 * in.margin

\* lines 124-132: the logo wrapper, a rule and a spacer, when a logo loads.
LogoWrap(ww, logo) ==
    IF ~logo.ok THEN Raised ELSE ImageNew(ww, logo.h)

LogoBlocks(in) ==
    LET ww == WorkingWidth(in)
        logo == load_logo(in.logo, ww, in.logo_max_h)
    IN  IF logo.none THEN <<>>
        ELSE <<Blk("logo", LogoWrap(ww, logo.im)),
               Blk("rule", h_rule(ww, 2)),
               Blk("spacer", spacer(15, ww))>>

\* lines 134-148: photo 1, the gap between the photos, photo 2.
PhotoBlock(kind, photo, ww, letterbox_pad) ==
    Blk(kind, add_letterbox(fit_width_keep_aspect(photo, ww), ww, letterbox_pad))

PhotoBlocks(in) ==
    LET ww == WorkingWidth(in)
        n == Len(in.photos)
    IN  (IF n >= 1 THEN <<PhotoBlock("photo1", in.photos[1], ww, in.letterbox_pad)>>
         ELSE <<>>)
        \o (IF n >= 2 /\ in.photo_gap > 0
            THEN <<Blk("photo_gap", ImageNew(ww, in.photo_gap))>> ELSE <<>>)
        \o (IF n >= 2 THEN <<PhotoBlock("photo2", in.photos[2], ww, in.letterbox_pad)>>
            ELSE <<>>)

\* lines 150-154: the code, centred on a ww-wide wrapper.
QrWrap(ww, qr) == IF ~qr.ok THEN Raised ELSE ImageNew(ww, qr.h)

QrBlocks(in) ==
    LET ww == WorkingWidth(in)
    IN  <<Blk("qr", QrWrap(ww, make_qr_image(in.qr_version, in.qr_max_w)))>>

\* lines 156-163: rule, receipt text, and spacer + date when a date is given.
TextBlocks(in) ==
    LET ww == WorkingWidth(in)
        font_main == load_font(in.fontOk, 22)
        font_date == load_font(in.fontOk, 18)
    IN  <<Blk("rule", h_rule(ww, 2)),
          Blk("text", centered_text_block_safe(in.receipt_text, ww, font_main, 6, 4))>>
        \o (IF in.date_text # <<>>
            THEN <<Blk("spacer", spacer(6, ww)),
                   Blk("date", centered_text_block_safe(in.date_text, ww, font_date, 2, 4))>>
            ELSE <<>>)

BuildBlocks(in) == LogoBlocks(in) \o PhotoBlocks(in) \o QrBlocks(in) \o TextBlocks(in)

\* lines 165-167
MT == 0
MB == 8
TotalHeightGapPerBlock(bs, gap) == MT + SumHeights(bs) + gap * Len(bs) + MB

TotalHeight(bs, gap) == MT + SumHeights(bs) + gap * (Len(bs) - 1) + MB

\* lines 174-176: the y of the next paste.
NextYNoGap(y, b, i, n, gap) == y + b.h

NextY(y, b, i, n, gap) == y + b.h + (IF i # n THEN gap ELSE 0)

PasteX(in) == in.margin

NoImage == [ok |-> FALSE, w |-> 0, h |-> 0]

\* lines 117-163: a raise in any helper leaves the function.
ComposeBuild ==
    /\ cpc = "build"
    /\ LET bs == BuildBlocks(cIn)
       IN  IF \E k \in 1..Len(bs) : ~bs[k].ok
           THEN /\ cpc' = "raised"
                /\ UNCHANGED <<blocks, canvas, pastes, cy, ci>>
           ELSE /\ blocks' = bs
                /\ cpc' = "canvas"
                /\ UNCHANGED <<canvas, pastes, cy, ci>>
    /\ UNCHANGED cIn

\* lines 165-171
ComposeCanvas ==
    /\ cpc = "canvas"
    /\ LET cv == ImageNew(cIn.paper_width, TotalHeight(blocks, cIn.gap))
       IN  IF ~cv.ok
           THEN /\ cpc' = "raised"
                /\ UNCHANGED <<canvas, cy, ci>>
           ELSE /\ canvas' = cv
                /\ cy' = MT
                /\ ci' = 1
                /\ cpc' = "paste"
    /\ UNCHANGED <<cIn, blocks, pastes>>

\* lines 172-176: one iteration of the paste loop.
ComposePaste ==
    /\ cpc = "paste"
    /\ ci <= Len(blocks)
    /\ pastes' = Append(pastes, [x |-> PasteX(cIn), y |-> cy,
                                 w |-> blocks[ci].w, h |-> blocks[ci].h])
    /\ cy' = NextY(cy, blocks[ci], ci, Len(blocks), cIn.gap)
    /\ ci' = ci + 1
    /\ UNCHANGED <<cIn, cpc, blocks, canvas>>

\* line 178
ComposeReturn ==
    /\ cpc = "paste"
    /\ ci > Len(blocks)
    /\ cpc' = "done"
    /\ UNCHANGED <<cIn, blocks, canvas, pastes, cy, ci>>

ComposeNext == ComposeBuild \/ ComposeCanvas \/ ComposePaste \/ ComposeReturn

\* Inputs of the compositor.  A layout is <<gap, photo_gap, letterbox_pad>>;
\* the booth's own is <<4, 8, 0>> on a 576 wide paper with margin 7.
Photo800 == Img(800, 600)
PhotoSets == {<<>>, <<Photo800, Img(562, 300)>>, <<Img(640, 480), Img(2000, 1)>>}
LogoFiles == {Raised, Img(1000, 400)}
Layouts == {<<4, 8, 0>>, <<0, 0, 0>>, <<4, 0, 3>>, <<0, 8, 3>>}
Texts == UNION {[1..n -> Chars] : n \in 0..MaxTextLen}

ComposeInputs ==
    {[paper_width |-> pw, margin |-> m, gap |-> lay[1], photo_gap |-> lay[2],
      letterbox_pad |-> lay[3], logo |-> lg, logo_max_h |-> 160,
      photos |-> ph, qr_version |-> v, qr_max_w |-> qw,
      receipt_text |-> rt, date_text |-> dt, fontOk |-> f] :
        pw \in {576, 40}, m \in {0, 7, 21}, lay \in Layouts, lg \in LogoFiles,
        ph \in PhotoSets, v \in 0..MaxQrVersion, qw \in {160, 300},
        rt \in {<<>>, <<"a", " ", "W">>}, dt \in {<<>>, <<"a">>}, f \in BOOLEAN}

ComposeIdle ==
    /\ cIn = [paper_width |-> 0]
    /\ cpc = "idle"
    /\ blocks = <<>>
    /\ canvas = NoImage
    /\ pastes = <<>>
    /\ cy = 0
    /\ ci = 0

ComposeInit ==
    /\ cIn \in ComposeInputs
    /\ cpc = "build"
    /\ blocks = <<>>
    /\ canvas = NoImage
    /\ pastes = <<>>
    /\ cy = 0
    /\ ci = 0

(***************************************************************************)
(* printer_io.py: 1bpp conversion and the raster frame.  A 1-bit bitmap is *)
(* its size and its pixels (0 = black, 255 = white), the pixel at (x, y)   *)
(* being pat[(y * w + x) % PatternPeriod]: what the dither or threshold    *)
(* step leaves is any such pattern.                                        *)
(***************************************************************************)
Patterns == [0..(PatternPeriod - 1) -> {0, 255}]

\* Bitmaps of more than MaxDense pixels take only the patterns that are
\* constant after their first pixel.
DitherOutputs(w, h) ==
    IF w * h <= MaxDense THEN Patterns
    ELSE {p \in Patterns : \A i \in 1..(PatternPeriod - 1) : p[i] = p[1]}

NoBitmap == [ok |-> FALSE, w |-> 0, h |-> 0, pat |-> <<>>]

px(bm, x, y) == bm.pat[(y * bm.w + x) % PatternPeriod]

ensure_multiple_of_8RoundUp(w) == ((w + 7) \div 8) * 8

ensure_multiple_of_8Identity(w) == w

ensure_multiple_of_8(w) == (w \div 8) * 8

\* lines 63-70: the size of the grayscale image after the optional resize;
\* the tone and sharpening steps and the 1-bit conversion keep it.
PrepSize(im, target_width) ==
    IF target_width # 0
    THEN LET tw == ensure_multiple_of_8(target_width)
         IN  IF im.w # tw
             THEN ImageResize(im, tw, Max(1, IntMulDiv(im.h, tw, im.w)))
             ELSE im
    ELSE im

prep_image_1bpp(im, target_width, pat) ==
    LET g == PrepSize(im, target_width)
    IN  IF ~g.ok THEN NoBitmap
        ELSE [ok |-> TRUE, w |-> g.w, h |-> g.h, pat |-> pat]

RowBytes(width) == (width + 7) \div 8

\* line 154
is_black(p) == IF p = 0 THEN 1 ELSE 0

\* lines 152-156: n pixels from (x, y) shifted into byte, most significant first.
RECURSIVE ShiftIn(_, _, _, _, _)
ShiftIn(bm, y, x, n, byte) ==
    IF n = 0 THEN byte
    ELSE ShiftIn(bm, y, x + 1, n - 1, (byte * 2) + is_black(px(bm, x, y)))

PackByteNoPad(bm, y, k) == ShiftIn(bm, y, 8 * k, Min(8, bm.w - 8 * k), 0)

\* lines 150-165: byte k of row y; a trailing partial byte is shifted left.
PackByte(bm, y, k) ==
    LET bit == Min(8, bm.w - 8 * k)
        byte == ShiftIn(bm, y, 8 * k, bit, 0)
    IN  IF bit = 8 THEN byte ELSE byte * (2 ^ (8 - bit))

\* lines 143-165: row_bytes * height bytes, rows in order.
PackedData(bm) ==
    LET row_bytes == RowBytes(bm.w)
    IN  [i \in 1..(row_bytes * bm.h) |->
            PackByte(bm, (i - 1) \div row_bytes, (i - 1) % row_bytes)]

\* lines 167-172
RasterHeader(bm) ==
    LET row_bytes == RowBytes(bm.w)
        xL == row_bytes % 256
        xH == (row_bytes \div 256) % 256
        yL == bm.h % 256
        yH == (bm.h \div 256) % 256
    IN  <<29, 118, 48, 0, xL, xH, yL, yH>>

\* One call of _pil_to_raster_bytes_bw, in its three stages.
RasterPrep ==
    /\ rpc = "prep"
    /\ LET g == PrepSize(rIn.im, rIn.target_width)
       IN  IF ~g.ok
           THEN /\ rpc' = "raised"
                /\ bw' = bw
           ELSE /\ \E pat \in DitherOutputs(g.w, g.h) :
                      bw' = prep_image_1bpp(rIn.im, rIn.target_width, pat)
                /\ rpc' = "pack"
    /\ UNCHANGED <<rIn, rdata, frame>>

RasterPack ==
    /\ rpc = "pack"
    /\ rdata' = PackedData(bw)
    /\ rpc' = "header"
    /\ UNCHANGED <<rIn, bw, frame>>

RasterReturn ==
    /\ rpc = "header"
    /\ frame' = RasterHeader(bw) \o rdata
    /\ rpc' = "done"
    /\ UNCHANGED <<rIn, bw, rdata>>

RasterNext == RasterPrep \/ RasterPack \/ RasterReturn

\* Inputs of the converter: small images under every small target width, and
\* the paper widths and the tall and wide images of the header's 16-bit fields.
SmallImages == {Img(5, 1), Img(8, 2), Img(13, 2), Img(16, 1)}
SmallTargets == {0, 5, 8, 13, 16}
RasterInputs ==
    [im : SmallImages, target_width : SmallTargets]
    \cup {[im |-> Img(560, 100), target_width |-> 560],
          [im |-> Img(576, 10), target_width |-> 563],
          [im |-> Img(563, 10), target_width |-> 563],
          [im |-> Img(19, 3), target_width |-> 0],
          [im |-> Img(8, 255), target_width |-> 8],
          [im |-> Img(8, 256), target_width |-> 8],
          [im |-> Img(8, 65535), target_width |-> 8],
          [im |-> Img(8, 65536), target_width |-> 8],
          [im |-> Img(524288, 1), target_width |-> 524288]}

RasterIdle ==
    /\ rIn = [target_width |-> 0]
    /\ rpc = "idle"
    /\ bw = NoBitmap
    /\ rdata = <<>>
    /\ frame = <<>>

RasterInit ==
    /\ rIn \in RasterInputs
    /\ rpc = "prep"
    /\ bw = NoBitmap
    /\ rdata = <<>>
    /\ frame = <<>>

(***************************************************************************)
(* printer_io.py: print_image_usb.  A device path is a number, its rank in *)
(* lexical order (0: no path); the serial device is the log of what was    *)
(* done to it.  Whether the image file opens and whether an open, a write  *)
(* or a flush raises is the environment's choice at that step.             *)
(***************************************************************************)
\* lines 143-173
pil_to_raster_bytes_bw(bm) == RasterHeader(bm) \o PackedData(bm)

RECURSIVE SortedSeq(_)
SortedSeq(S) ==
    IF S = {} THEN <<>>
    ELSE LET m == CHOOSE x \in S : \A y \in S : x <= y
         IN  <<m>> \o SortedSeq(S \ {m})

\* sorted(glob(usbmodem*) + glob(usbserial*))
list_usb_candidate_ports(ports) == SortedSeq(ports)

CHUNK == 2048

Ev(op, bytes, d) == [op |-> op, bytes |-> bytes, dev |-> d]

PrintResult(ok, msg) == [ok |-> ok, msg |-> msg]
NoResult == [ok |-> FALSE, msg |-> "none"]

PrintReturn(ok, msg) ==
    /\ pRes' = PrintResult(ok, msg)
    /\ ppc' = "done"

\* lines 230-231
PrintStart ==
    /\ ppc = "start"
    /\ IF ~pIn.have_pyserial
       THEN PrintReturn(FALSE, "no_pyserial")
       ELSE /\ ppc' = "load"
            /\ pRes' = pRes
    /\ UNCHANGED <<pIn, pdata, dev, ser, serLog, pOff>>

\* lines 233-255
PrintLoad ==
    /\ ppc = "load"
    /\ \/ /\ PrintReturn(FALSE, "image_open_failed")
          /\ pdata' = pdata
       \/ LET g == PrepSize(pIn.im, pIn.paper_width_px)
          IN  IF ~g.ok
              THEN /\ PrintReturn(FALSE, "image_convert_failed")
                   /\ pdata' = pdata
              ELSE /\ \E pat \in DitherOutputs(g.w, g.h) :
                         pdata' = pil_to_raster_bytes_bw(
                                      prep_image_1bpp(pIn.im, pIn.paper_width_px, pat))
                   /\ ppc' = "select"
                   /\ pRes' = pRes
    /\ UNCHANGED <<pIn, dev, ser, serLog, pOff>>

FirstCandidate(cands) == cands[1]

\* A selection that keeps the device of the call before.
PrintSelectSticky ==
    /\ ppc = "select"
    /\ IF ser.dev # 0
       THEN /\ dev' = ser.dev
            /\ ppc' = "open"
            /\ pRes' = pRes
       ELSE IF pIn.device # 0
       THEN /\ dev' = pIn.device
            /\ ppc' = "open"
            /\ pRes' = pRes
       ELSE LET cands == list_usb_candidate_ports(pIn.ports)
            IN  IF cands = <<>>
                THEN /\ PrintReturn(FALSE, "no_port")
                     /\ dev' = dev
                ELSE /\ dev' = FirstCandidate(cands)
                     /\ ppc' = "open"
                     /\ pRes' = pRes
    /\ UNCHANGED <<pIn, pdata, ser, serLog, pOff>>

\* lines 257-263
PrintSelect ==
    /\ ppc = "select"
    /\ IF pIn.device # 0
       THEN /\ dev' = pIn.device
            /\ ppc' = "open"
            /\ pRes' = pRes
       ELSE LET cands == list_usb_candidate_ports(pIn.ports)
            IN  IF cands = <<>>
                THEN /\ PrintReturn(FALSE, "no_port")
                     /\ dev' = dev
                ELSE /\ dev' = FirstCandidate(cands)
                     /\ ppc' = "open"
                     /\ pRes' = pRes
    /\ UNCHANGED <<pIn, pdata, ser, serLog, pOff>>

\* line 267: Serial(dev, ...) opens the port, or raises.
PrintOpen ==
    /\ ppc = "open"
    /\ \/ /\ ser' = [open |-> TRUE, dev |-> dev]
          /\ serLog' = Append(serLog, Ev("open", <<>>, dev))
          /\ ppc' = "init"
          /\ pRes' = pRes
       \/ /\ PrintReturn(FALSE, "usb_output_failed")
          /\ UNCHANGED <<ser, serLog>>
    /\ UNCHANGED <<pIn, pdata, dev, pOff>>

\* ser.write(bytes): all of it is written, or the call raises.
SerWrite(bytes, next) ==
    \/ /\ serLog' = Append(serLog, Ev("write", bytes, ser.dev))
       /\ ppc' = next
    \/ /\ serLog' = serLog
       /\ ppc' = "abort"

\* line 269
PrintInit ==
    /\ ppc = "init"
    /\ SerWrite(<<27, 64>>, "center")
    /\ UNCHANGED <<pIn, pdata, dev, ser, pOff, pRes>>

\* line 270
PrintCenter ==
    /\ ppc = "center"
    /\ SerWrite(<<27, 97, 1>>, "spacing")
    /\ UNCHANGED <<pIn, pdata, dev, ser, pOff, pRes>>

\* lines 271-272
PrintSpacing ==
    /\ ppc = "spacing"
    /\ SerWrite(<<27, 50>>, "raster")
    /\ UNCHANGED <<pIn, pdata, dev, ser, pOff, pRes>>

SliceShort(payload, i, chunk) == SubSeq(payload, i + 1, Min(i + chunk - 1, Len(payload)))

\* payload[i:i + chunk]
Slice(payload, i, chunk) == SubSeq(payload, i + 1, Min(i + chunk, Len(payload)))

\* lines 186-187, 275: one iteration of _serial_write_all's loop.
PrintChunk ==
    /\ ppc = "raster"
    /\ pOff < Len(pdata)
    /\ SerWrite(Slice(pdata, pOff, CHUNK), "raster")
    /\ pOff' = pOff + CHUNK
    /\ UNCHANGED <<pIn, pdata, dev, ser, pRes>>

PrintChunksDone ==
    /\ ppc = "raster"
    /\ pOff >= Len(pdata)
    /\ ppc' = "feed"
    /\ UNCHANGED <<pIn, pdata, dev, ser, serLog, pOff, pRes>>

LineFeeds(n) == [i \in 1..n |-> 10]

\* lines 278-279
PrintFeed ==
    /\ ppc = "feed"
    /\ IF pIn.feed_after > 0
       THEN SerWrite(LineFeeds(pIn.feed_after), "cut")
       ELSE /\ ppc' = "cut"
            /\ serLog' = serLog
    /\ UNCHANGED <<pIn, pdata, dev, ser, pOff, pRes>>

\* lines 282-283
PrintCut ==
    /\ ppc = "cut"
    /\ IF pIn.do_cut
       THEN SerWrite(<<29, 86, 66, 0>>, "flush")
       ELSE /\ ppc' = "flush"
            /\ serLog' = serLog
    /\ UNCHANGED <<pIn, pdata, dev, ser, pOff, pRes>>

\* line 285
PrintFlush ==
    /\ ppc = "flush"
    /\ \/ /\ serLog' = Append(serLog, Ev("flush", <<>>, ser.dev))
          /\ ppc' = "close"
       \/ /\ serLog' = serLog
          /\ ppc' = "abort"
    /\ UNCHANGED <<pIn, pdata, dev, ser, pOff, pRes>>

\* A with block that leaves the port open when its body raised.
PrintCloseLeak ==
    /\ ppc \in {"close", "abort"}
    /\ ser' = [open |-> (ppc = "abort"), dev |-> ser.dev]
    /\ serLog' = IF ppc = "close" THEN Append(serLog, Ev("close", <<>>, ser.dev))
                 ELSE serLog
    /\ pRes' = IF ppc = "close" THEN PrintResult(TRUE, "printed")
               ELSE PrintResult(FALSE, "usb_output_failed")
    /\ ppc' = "done"
    /\ UNCHANGED <<pIn, pdata, dev, pOff>>

\* lines 267, 286-288: leaving the with block closes the port, after the
\* flush or on the way out of a raise.
PrintClose ==
    /\ ppc \in {"close", "abort"}
    /\ ser' = [open |-> FALSE, dev |-> ser.dev]
    /\ serLog' = Append(serLog, Ev("close", <<>>, ser.dev))
    /\ pRes' = IF ppc = "close" THEN PrintResult(TRUE, "printed")
               ELSE PrintResult(FALSE, "usb_output_failed")
    /\ ppc' = "done"
    /\ UNCHANGED <<pIn, pdata, dev, pOff>>

\* Print jobs: an image and the paper width it is printed at.  The 64 wide
\* images give frames of 2048, 2056, 4096 and 4104 bytes.
PrintJobs ==
    {<<Img(16, 5), 16>>, <<Img(13, 2), 5>>, <<Img(64, 255), 64>>, <<Img(64, 256), 64>>,
     <<Img(64, 511), 64>>, <<Img(64, 512), 64>>, <<Img(600, 31), 576>>}
PortSets == {{}, {3}, {1, 3}, {2, 4}}
ExplicitDevices == {0, 9}

PrintInputs ==
    {[have_pyserial |-> hp, im |-> job[1], paper_width_px |-> job[2],
      device |-> d, ports |-> ps, do_cut |-> cut, feed_after |-> fa] :
        hp \in BOOLEAN, job \in PrintJobs, d \in ExplicitDevices, ps \in PortSets,
        cut \in BOOLEAN, fa \in {0, 1, 3}}

\* The calls that follow a first one: the next copy, or another job, with
\* whatever ports are plugged in by then.
RepeatInputs == {in \in PrintInputs : in.im = Img(16, 5)}

\* lines 205-229: the caller calls again; the locals are new, the port object
\* of the call before is left as it was.
PrintAgain ==
    /\ ppc = "done"
    /\ \E in \in RepeatInputs : pIn' = in
    /\ ppc' = "start"
    /\ pdata' = <<>>
    /\ dev' = 0
    /\ serLog' = <<>>
    /\ pOff' = 0
    /\ pRes' = NoResult
    /\ UNCHANGED ser

PrintNext ==
    \/ PrintStart \/ PrintLoad \/ PrintSelect \/ PrintOpen
    \/ PrintInit \/ PrintCenter \/ PrintSpacing
    \/ PrintChunk \/ PrintChunksDone
    \/ PrintFeed \/ PrintCut \/ PrintFlush \/ PrintClose
    \/ PrintAgain

PrintCallState(in) ==
    /\ pIn = in
    /\ ppc = "start"
    /\ pdata = <<>>
    /\ dev = 0
    /\ ser = [open |-> FALSE, dev |-> 0]
    /\ serLog = <<>>
    /\ pOff = 0
    /\ pRes = NoResult

PrintIdle ==
    /\ pIn = [have_pyserial |-> FALSE]
    /\ ppc = "idle"
    /\ pdata = <<>>
    /\ dev = 0
    /\ ser = [open |-> FALSE, dev |-> 0]
    /\ serLog = <<>>
    /\ pOff = 0
    /\ pRes = NoResult

PrintInit0 == \E in \in PrintInputs : PrintCallState(in)

(***************************************************************************)
(* ui_booth.py: BoothCam.  A captured photo is its size; the handlers run  *)
(* to completion on the GUI thread, and only processEvents() inside        *)
(* _print_both lets other handlers in.  print_image_usb is called          *)
(* synchronously: its result is one of those the transport returns.        *)
(* saved tells whether the composite of the request under way (or of the   *)
(* last one) has been written to its file.                                 *)
(***************************************************************************)
MAX_SHOTS == 2
COPIES_MAX == 10
PAPER_WIDTH == 576
QR_MAX_W == 160
DEFAULT_MARGIN == 7
DEFAULT_GAP == 4
DEFAULT_PHOTO_GAP == 8
DEFAULT_LETTERBOX == 0
DEFAULT_LOGO_MAX_H == 160

CameraFrame == Img(640, 480)

Status(kind, err, a, b, msg) == [kind |-> kind, err |-> err, a |-> a, b |-> b, msg |-> msg]

\* The results print_image_usb returns (lines 231, 236, 255, 262, 286, 288).
PrintOutcomes ==
    {PrintResult(TRUE, "printed"), PrintResult(FALSE, "no_pyserial"),
     PrintResult(FALSE, "image_open_failed"), PrintResult(FALSE, "image_convert_failed"),
     PrintResult(FALSE, "no_port"), PrintResult(FALSE, "usb_output_failed")}

\* lines 381-395: the arguments of the booth's call.
BoothComposeInput(photos, logo, version, fontOk) ==
    [paper_width |-> PAPER_WIDTH, margin |-> DEFAULT_MARGIN, gap |-> DEFAULT_GAP,
     photo_gap |-> DEFAULT_PHOTO_GAP, letterbox_pad |-> DEFAULT_LETTERBOX,
     logo |-> logo, logo_max_h |-> DEFAULT_LOGO_MAX_H, photos |-> photos,
     qr_version |-> version, qr_max_w |-> QR_MAX_W,
     receipt_text |-> <<"a", " ", "W">>, date_text |-> <<"a">>, fontOk |-> fontOk]

\* lines 440-444
reset_all ==
    /\ captured_images' = <<>>
    /\ status' = Status("reset_done", FALSE, 0, 0, "")

\* lines 269-283; whether cv2.imwrite succeeds is the environment's choice.
capture_photo ==
    IF ~last_frame
    THEN /\ status' = Status("no_frame", TRUE, 0, 0, "")
         /\ captured_images' = captured_images
    ELSE IF Len(captured_images) >= MAX_SHOTS
    THEN /\ status' = Status("no_shots_left", TRUE, 0, 0, "")
         /\ captured_images' = captured_images
    ELSE \/ /\ captured_images' = Append(captured_images, CameraFrame)
            /\ status' = Status("captured", FALSE, Len(captured_images) + 1, 0, "")
         \/ /\ captured_images' = captured_images
            /\ status' = Status("capture_save_failed", TRUE, 0, 0, "")

\* lines 248-255: the preview timer delivers a frame.
BoothTick ==
    /\ bpc = "idle"
    /\ ~last_frame
    /\ last_frame' = TRUE
    /\ UNCHANGED <<bpc, captured_images, chk_printer, chk_auto_reset, copies_combo,
                   timers, status, boothLocals, saved>>

BoothCapture ==
    /\ bpc = "idle"
    /\ capture_photo
    /\ UNCHANGED <<bpc, last_frame, chk_printer, chk_auto_reset, copies_combo, timers,
                   boothLocals, saved>>

BoothResetClick ==
    /\ bpc = "idle"
    /\ reset_all
    /\ UNCHANGED <<bpc, last_frame, chk_printer, chk_auto_reset, copies_combo, timers,
                   boothLocals, saved>>

\* line 438's single shot fires.
BoothTimerFire ==
    /\ bpc = "idle"
    /\ timers > 0
    /\ timers' = timers - 1
    /\ reset_all
    /\ UNCHANGED <<bpc, last_frame, chk_printer, chk_auto_reset, copies_combo, boothLocals, saved>>

\* The operator's check boxes and the copies combo (lines 127-128, 167-176).
BoothTogglePrinter ==
    /\ bpc = "idle"
    /\ chk_printer' = ~chk_printer
    /\ UNCHANGED <<bpc, captured_images, last_frame, chk_auto_reset, copies_combo,
                   timers, status, boothLocals, saved>>

BoothToggleAutoReset ==
    /\ bpc = "idle"
    /\ chk_auto_reset' = ~chk_auto_reset
    /\ UNCHANGED <<bpc, captured_images, last_frame, chk_printer, copies_combo,
                   timers, status, boothLocals, saved>>

BoothSetCopies ==
    /\ bpc = "idle"
    /\ \E n \in 1..COPIES_MAX : copies_combo' = n
    /\ UNCHANGED <<bpc, captured_images, last_frame, chk_printer, chk_auto_reset,
                   timers, status, boothLocals, saved>>

ClearLocals ==
    /\ photos_pil' = <<>>
    /\ receipt' = NoImage
    /\ copies' = 0
    /\ success_cnt' = 0
    /\ bi' = 0
    /\ last_msg' = ""
    /\ callLog' = <<>>

\* lines 311-320: the click on "print", up to processEvents().
BoothPrintClick ==
    /\ bpc = "idle"
    /\ timers < MaxTimers
    /\ IF Len(captured_images) < MAX_SHOTS
       THEN /\ status' = Status("need_photos", TRUE, MAX_SHOTS, 0, "")
            /\ bpc' = bpc
            /\ saved' = saved
       ELSE /\ status' = status
            /\ bpc' = "events"
            /\ saved' = FALSE
    /\ UNCHANGED <<boothUi, boothLocals>>

\* line 321: processEvents() runs the handlers of the events that are
\* pending: a queued capture, a queued reset click, an expired single shot.
BoothNestedCapture ==
    /\ bpc = "events"
    /\ capture_photo
    /\ UNCHANGED <<bpc, last_frame, chk_printer, chk_auto_reset, copies_combo, timers,
                   boothLocals, saved>>

BoothNestedReset ==
    /\ bpc = "events"
    /\ Len(captured_images) > 0
    /\ reset_all
    /\ UNCHANGED <<bpc, last_frame, chk_printer, chk_auto_reset, copies_combo, timers,
                   boothLocals, saved>>

BoothNestedTimer ==
    /\ bpc = "events"
    /\ timers > 0
    /\ timers' = timers - 1
    /\ reset_all
    /\ UNCHANGED <<bpc, last_frame, chk_printer, chk_auto_reset, copies_combo, boothLocals, saved>>

\* lines 323-378: a missing logo file is reported and the handler goes on;
\* the photos are saved and uploaded, then meta.json.  A save or upload of a
\* photo that fails raises out of the handler; a failed meta.json upload is
\* reported and ends it.
BoothPrepare ==
    /\ bpc = "events"
    /\ \/ /\ photos_pil' = SubSeq(captured_images, 1, Min(2, Len(captured_images)))
          /\ status' = Status("page_url", FALSE, 0, 0, "")
          /\ bpc' = "compose"
          /\ UNCHANGED <<receipt, copies, success_cnt, bi, last_msg, callLog>>
       \/ /\ status' = Status("meta_upload_failed", TRUE, 0, 0, "")
          /\ bpc' = "idle"
          /\ UNCHANGED boothLocals
       \/ /\ status' \in {status, Status("logo_missing", TRUE, 0, 0, "")}
          /\ bpc' = "idle"
          /\ UNCHANGED boothLocals
    /\ UNCHANGED <<boothUi, saved>>

\* lines 379-395: the call of compose_receipt_two_photos; the logo file, the
\* font file and the code payload's size are the environment's.
BoothCompose ==
    /\ bpc = "compose"
    /\ \E logo \in LogoFiles, version \in 0..MaxQrVersion, fontOk \in BOOLEAN :
          cIn' = BoothComposeInput(photos_pil, logo, version, fontOk)
    /\ cpc' = "build"
    /\ blocks' = <<>>
    /\ canvas' = NoImage
    /\ pastes' = <<>>
    /\ cy' = 0
    /\ ci' = 0
    /\ bpc' = "composing"
    /\ UNCHANGED <<boothUi, status, boothLocals, saved>>

\* A handler that reports the raise and goes on to save and print.
BoothComposedGoesOn ==
    /\ bpc = "composing"
    /\ cpc \in {"done", "raised"}
    /\ receipt' = canvas
    /\ status' = IF cpc = "raised" THEN Status("compose_failed", TRUE, 0, 0, "")
                 ELSE status
    /\ bpc' = "save"
    /\ cIn' = [paper_width |-> 0]
    /\ cpc' = "idle"
    /\ blocks' = <<>>
    /\ canvas' = NoImage
    /\ pastes' = <<>>
    /\ cy' = 0
    /\ ci' = 0
    /\ UNCHANGED <<boothUi, saved, photos_pil, copies, success_cnt, bi, last_msg, callLog>>

\* lines 381-398: the call returns the canvas, or raises.
BoothComposed ==
    /\ bpc = "composing"
    /\ cpc \in {"done", "raised"}
    /\ IF cpc = "raised"
       THEN /\ status' = Status("compose_failed", TRUE, 0, 0, "")
            /\ bpc' = "idle"
            /\ ClearLocals
       ELSE /\ receipt' = canvas
            /\ status' = status
            /\ bpc' = "save"
            /\ UNCHANGED <<photos_pil, copies, success_cnt, bi, last_msg, callLog>>
    /\ cIn' = [paper_width |-> 0]
    /\ cpc' = "idle"
    /\ blocks' = <<>>
    /\ canvas' = NoImage
    /\ pastes' = <<>>
    /\ cy' = 0
    /\ ci' = 0
    /\ UNCHANGED <<boothUi, saved>>

\* lines 400-408
BoothSave ==
    /\ bpc = "save"
    /\ \/ /\ saved' = TRUE
          /\ status' = Status("receipt_saved", FALSE, 0, 0, "")
          /\ bpc' = "print"
          /\ UNCHANGED boothLocals
       \/ /\ saved' = saved
          /\ status' = Status("save_failed", TRUE, 0, 0, "")
          /\ bpc' = "idle"
          /\ ClearLocals
    /\ UNCHANGED boothUi

\* lines 411-416
BoothLoopInit ==
    /\ bpc = "print"
    /\ success_cnt' = 0
    /\ bi' = 0
    /\ last_msg' = ""
    /\ callLog' = <<>>
    /\ IF chk_printer
       THEN /\ copies' = copies_combo
            /\ bpc' = "loop"
       ELSE /\ copies' = 1
            /\ bpc' = "autoreset"
    /\ UNCHANGED <<boothUi, status, photos_pil, receipt, saved>>

LoopGoesOnAnyway(ok, i, n) == i + 1 < n

\* lines 417, 423-428: after copy i (from 0) the loop goes on to the next.
LoopGoesOn(ok, i, n) == ok /\ i + 1 < n

\* lines 417-428: one copy.
BoothPrintCopy ==
    /\ bpc = "loop"
    /\ bi < copies
    /\ \E r \in PrintOutcomes :
          /\ callLog' = Append(callLog, r)
          /\ last_msg' = r.msg
          /\ success_cnt' = IF r.ok THEN success_cnt + 1 ELSE success_cnt
          /\ status' = IF r.ok THEN status
                       ELSE Status("copy_failed", TRUE, bi + 1, 0, r.msg)
          /\ IF LoopGoesOn(r.ok, bi, copies)
             THEN /\ bi' = bi + 1
                  /\ bpc' = "loop"
             ELSE /\ bi' = bi
                  /\ bpc' = "report"
    /\ UNCHANGED <<boothUi, photos_pil, receipt, saved, copies>>

\* lines 430-433
BoothReport ==
    /\ bpc = "report"
    /\ status' = IF success_cnt = copies
                 THEN Status("printed", FALSE, success_cnt, 0, "")
                 ELSE Status("partly_printed", TRUE, success_cnt, copies, last_msg)
    /\ bpc' = "autoreset"
    /\ UNCHANGED <<boothUi, boothLocals, saved>>

\* An auto reset that does not look at the copies.
BoothAutoResetAlways ==
    /\ bpc = "autoreset"
    /\ timers' = IF chk_auto_reset THEN timers + 1 ELSE timers
    /\ bpc' = "idle"
    /\ ClearLocals
    /\ UNCHANGED <<captured_images, last_frame, chk_printer, chk_auto_reset,
                   copies_combo, status, saved>>

\* lines 434-438
BoothAutoReset ==
    /\ bpc = "autoreset"
    /\ LET printed_ok == (~chk_printer) \/ (success_cnt = copies)
       IN  timers' = IF chk_auto_reset /\ printed_ok THEN timers + 1 ELSE timers
    /\ bpc' = "idle"
    /\ ClearLocals
    /\ UNCHANGED <<captured_images, last_frame, chk_printer, chk_auto_reset,
                   copies_combo, status, saved>>

\* lines 70-76, 127-128, 167-176: the window as constructed.
BoothInit ==
    /\ bpc = "idle"
    /\ captured_images = <<>>
    /\ last_frame = FALSE
    /\ chk_printer = TRUE
    /\ chk_auto_reset = TRUE
    /\ copies_combo = 1
    /\ timers = 0
    /\ status = Status("ready", FALSE, 0, 0, "")
    /\ photos_pil = <<>>
    /\ receipt = NoImage
    /\ saved = FALSE
    /\ copies = 0
    /\ success_cnt = 0
    /\ bi = 0
    /\ last_msg = ""
    /\ callLog = <<>>

BoothIdle == BoothInit

TextIdle ==
    /\ tIn = [width |-> 0]
    /\ tpc = "idle"
    /\ tOut = [ok |-> FALSE]

\* One call of centered_text_block_safe on drawn arguments.
TextInputs ==
    [text : Texts, width : {0, 12, 30, 40}, fontOk : BOOLEAN, size : {18, 22},
     pad : {0, 2, 6}, safety_px : {0, 4}]

TextInit ==
    /\ tIn \in TextInputs
    /\ tpc = "call"
    /\ tOut = [ok |-> FALSE]

TextRender ==
    /\ tpc = "call"
    /\ tOut' = centered_text_block_safe(tIn.text, tIn.width,
                                        load_font(tIn.fontOk, tIn.size),
                                        tIn.pad, tIn.safety_px)
    /\ tpc' = "done"
    /\ UNCHANGED tIn

(***************************************************************************)
(* The helpers of compose.py called on their own: make_qr_image,           *)
(* load_logo, and the photo normalisation of compose_receipt_two_photos.   *)
(***************************************************************************)
UtilQrInputs ==
    [fn : {"qr"}, version : 0..MaxQrVersion,
     target_w : {0, 1, 100, 160, 225, 226, 261, 300}]

UtilLogoFiles ==
    {Raised, Img(100, 50), Img(1000, 400), Img(562, 160), Img(600, 303),
     Img(100, 600), Img(1000, 1), Img(27, 81), Img(563, 20), Img(1, 1)}

UtilLogoInputs ==
    [fn : {"logo"}, src : UtilLogoFiles, max_w : {562, 576, 26, 0}, max_h : {160, 40}]

UtilPhotos ==
    {Photo800, Img(640, 480), Img(1280, 720), Img(562, 300), Img(2000, 1),
     Img(27, 81), Img(100, 75), Img(3, 2)}

UtilFitInputs ==
    [fn : {"fit"}, paper_width : {576, 40}, margin : {0, 7, 21}, photo : UtilPhotos]

UtilIdle ==
    /\ uIn = [fn |-> "none"]
    /\ upc = "idle"
    /\ uOut = Raised

UtilInit ==
    /\ uIn \in UtilQrInputs \cup UtilLogoInputs \cup UtilFitInputs
    /\ upc = "call"
    /\ uOut = Raised

\* lines 32-41
UtilQr ==
    /\ upc = "call"
    /\ uIn.fn = "qr"
    /\ uOut' = make_qr_image(uIn.version, uIn.target_w)
    /\ upc' = "done"
    /\ UNCHANGED uIn

\* lines 20-30: None when the file cannot be opened, else the image or a
\* raise of resize.
UtilLogo ==
    /\ upc = "call"
    /\ uIn.fn = "logo"
    /\ LET r == load_logo(uIn.src, uIn.max_w, uIn.max_h)
       IN  /\ uOut' = r.im
           /\ upc' = IF r.none THEN "none" ELSE "done"
    /\ UNCHANGED uIn

\* lines 121, 134-138: ww and the normalisation of one photo.
UtilFit ==
    /\ upc = "call"
    /\ uIn.fn = "fit"
    /\ uOut' = fit_width_keep_aspect(uIn.photo, WorkingWidth(uIn))
    /\ upc' = "done"
    /\ UNCHANGED uIn

UtilNext == UtilQr \/ UtilLogo \/ UtilFit

InitCompose == ComposeInit /\ TextIdle /\ RasterIdle /\ PrintIdle /\ BoothIdle /\ UtilIdle
ComposeFrame == UNCHANGED <<textVars, rasterVars, printVars, boothVars, utilVars>>
NextCompose ==
    \/ ComposeBuild /\ ComposeFrame
    \/ ComposeCanvas /\ ComposeFrame
    \/ ComposePaste /\ ComposeFrame
    \/ ComposeReturn /\ ComposeFrame
SpecCompose == InitCompose /\ [][NextCompose]_vars

InitText == TextInit /\ ComposeIdle /\ RasterIdle /\ PrintIdle /\ BoothIdle /\ UtilIdle
NextText == TextRender /\ UNCHANGED <<composeVars, rasterVars, printVars, boothVars, utilVars>>
SpecText == InitText /\ [][NextText]_vars

InitRaster == RasterInit /\ ComposeIdle /\ TextIdle /\ PrintIdle /\ BoothIdle /\ UtilIdle
RasterFrame == UNCHANGED <<composeVars, textVars, printVars, boothVars, utilVars>>
NextRaster ==
    \/ RasterPrep /\ RasterFrame
    \/ RasterPack /\ RasterFrame
    \/ RasterReturn /\ RasterFrame
SpecRaster == InitRaster /\ [][NextRaster]_vars

InitPrint == PrintInit0 /\ ComposeIdle /\ TextIdle /\ RasterIdle /\ BoothIdle /\ UtilIdle
PrintFrame == UNCHANGED <<composeVars, textVars, rasterVars, boothVars, utilVars>>
NextPrint ==
    \/ PrintStart /\ PrintFrame
    \/ PrintLoad /\ PrintFrame
    \/ PrintSelect /\ PrintFrame
    \/ PrintOpen /\ PrintFrame
    \/ PrintInit /\ PrintFrame
    \/ PrintCenter /\ PrintFrame
    \/ PrintSpacing /\ PrintFrame
    \/ PrintChunk /\ PrintFrame
    \/ PrintChunksDone /\ PrintFrame
    \/ PrintFeed /\ PrintFrame
    \/ PrintCut /\ PrintFrame
    \/ PrintFlush /\ PrintFrame
    \/ PrintClose /\ PrintFrame
    \/ PrintAgain /\ PrintFrame
SpecPrint == InitPrint /\ [][NextPrint]_vars

InitUtil == UtilInit /\ ComposeIdle /\ TextIdle /\ RasterIdle /\ PrintIdle /\ BoothIdle
UtilFrame == UNCHANGED <<composeVars, textVars, rasterVars, printVars, boothVars>>
NextUtil ==
    \/ UtilQr /\ UtilFrame
    \/ UtilLogo /\ UtilFrame
    \/ UtilFit /\ UtilFrame
SpecUtil == InitUtil /\ [][NextUtil]_vars

InitBooth == BoothInit /\ ComposeIdle /\ TextIdle /\ RasterIdle /\ PrintIdle /\ UtilIdle
ComposeUntouched == UNCHANGED composeVars
OthersUntouched == UNCHANGED <<textVars, rasterVars, printVars, utilVars>>
NextBooth ==
    \/ BoothTick /\ ComposeUntouched /\ OthersUntouched
    \/ BoothCapture /\ ComposeUntouched /\ OthersUntouched
    \/ BoothResetClick /\ ComposeUntouched /\ OthersUntouched
    \/ BoothTimerFire /\ ComposeUntouched /\ OthersUntouched
    \/ BoothTogglePrinter /\ ComposeUntouched /\ OthersUntouched
    \/ BoothToggleAutoReset /\ ComposeUntouched /\ OthersUntouched
    \/ BoothSetCopies /\ ComposeUntouched /\ OthersUntouched
    \/ BoothPrintClick /\ ComposeUntouched /\ OthersUntouched
    \/ BoothNestedCapture /\ ComposeUntouched /\ OthersUntouched
    \/ BoothNestedReset /\ ComposeUntouched /\ OthersUntouched
    \/ BoothNestedTimer /\ ComposeUntouched /\ OthersUntouched
    \/ BoothPrepare /\ ComposeUntouched /\ OthersUntouched
    \/ BoothSave /\ ComposeUntouched /\ OthersUntouched
    \/ BoothLoopInit /\ ComposeUntouched /\ OthersUntouched
    \/ BoothPrintCopy /\ ComposeUntouched /\ OthersUntouched
    \/ BoothReport /\ ComposeUntouched /\ OthersUntouched
    \/ BoothAutoReset /\ ComposeUntouched /\ OthersUntouched
    \/ BoothCompose /\ OthersUntouched
    \/ ComposeNext /\ OthersUntouched /\ UNCHANGED boothVars
    \/ BoothComposed /\ OthersUntouched
SpecBooth == InitBooth /\ [][NextBooth]_vars

(***************************************************************************)
(* Claims about the layout compositor.                                     *)
(***************************************************************************)
RECURSIVE SumOfH(_, _)
SumOfH(bs, k) == IF k = 0 THEN 0 ELSE bs[k].h + SumOfH(bs, k - 1)

\* C1: the returned canvas is paper_width wide and
\* 0 + (sum of the block heights) + gap * (n - 1) + 8 high, for n >= 1 blocks.
C1_CanvasSize ==
    cpc = "done" =>
        /\ Len(blocks) >= 1
        /\ canvas.w = cIn.paper_width
        /\ canvas.h = 0 + SumOfH(blocks, Len(blocks)) + cIn.gap * (Len(blocks) - 1) + 8

C1_Witness ==
    /\ cpc = "done"
    /\ cIn.paper_width = 576 /\ cIn.margin = 7 /\ cIn.gap = 4
    /\ Len(blocks) = 11

\* C2: every block is pasted at x = margin, in list order, at strictly
\* increasing y, consecutive blocks exactly gap apart, no gap after the last
\* block, whose bottom edge is 8 pixels above the canvas's; every block lies
\* inside the canvas.
C2_PasteLayout ==
    cpc = "done" =>
        LET n == Len(blocks)
        IN  /\ Len(pastes) = n
            /\ \A k \in 1..n :
                  /\ pastes[k].x = cIn.margin
                  /\ pastes[k].w = blocks[k].w /\ pastes[k].h = blocks[k].h
                  /\ pastes[k].x >= 0 /\ pastes[k].y >= 0
                  /\ pastes[k].x + pastes[k].w <= canvas.w
                  /\ pastes[k].y + pastes[k].h <= canvas.h
            /\ \A k \in 1..(n - 1) :
                  /\ pastes[k].y < pastes[k + 1].y
                  /\ pastes[k + 1].y = pastes[k].y + pastes[k].h + cIn.gap
            /\ pastes[1].y = 0
            /\ pastes[n].y + pastes[n].h = canvas.h - 8
            /\ cy = pastes[n].y + pastes[n].h

C2_Witness ==
    /\ cpc = "done"
    /\ cIn.gap = 4
    /\ Len(pastes) >= 9
    /\ pastes[9].y > pastes[8].y + pastes[8].h

\* C3: every block of the list is exactly ww = paper_width - 2 * margin wide.
C3_BlockWidths ==
    cpc \in {"canvas", "paste", "done"} =>
        \A k \in 1..Len(blocks) : blocks[k].w = cIn.paper_width - 2 * cIn.margin

C3_Witness ==
    /\ cpc = "done"
    /\ cIn.letterbox_pad > 0
    /\ {blocks[k].kind : k \in 1..Len(blocks)} =
          {"logo", "rule", "spacer", "photo1", "photo_gap", "photo2", "qr", "text", "date"}

(***************************************************************************)
(* Claims about the text block renderer.                                   *)
(***************************************************************************)
\* The input lines of a text: one per newline, and one more for an
\* unterminated last line.
InputLineCount(t) ==
    Cardinality({i \in 1..Len(t) : t[i] = "\n"})
    + (IF t # <<>> /\ t[Len(t)] # "\n" THEN 1 ELSE 0)

\* C10: the returned block is exactly `width` wide (never width + safety_px)
\* and 2 * pad + line_height * line_count high, line_count being the number
\* of wrapped lines, in which every input line - an empty one too - counts
\* at least once (and exactly once when it holds no word).
C10_TextBlockSize ==
    tpc = "done" =>
        LET n == Len(tOut.lines)
            line_h == (load_font(tIn.fontOk, tIn.size).size * 13) \div 10
        IN  /\ tOut.ok
            /\ tOut.w = tIn.width
            /\ tOut.h = 2 * tIn.pad + line_h * n
            /\ n >= InputLineCount(tIn.text)
            /\ (\A i \in 1..Len(tIn.text) : tIn.text[i] \in {" ", "\n"})
                  => n = InputLineCount(tIn.text)

C10_Witness ==
    /\ tpc = "done"
    /\ tIn.text = <<"a", "\n", "\n">>
    /\ tIn.safety_px = 4 /\ tIn.width = 30 /\ tIn.pad = 6
    /\ Len(tOut.lines) = 2
    /\ tOut.w = 30

\* C11: no glyph is clipped at the right edge: every line the block draws
\* starts at an x such that x plus the line's measured width is at most
\* `width`, whatever the text and the glyph advances of the font.
C11_NoGlyphClipped ==
    tpc = "done" =>
        \A k \in 1..Len(tOut.draws) :
            tOut.draws[k].x + tOut.draws[k].tw <= tIn.width

(***************************************************************************)
(* Claims about the helpers of compose.py.                                 *)
(***************************************************************************)
\* C12: for every payload the encoder accepts and every target width, the
\* image make_qr_image returns is min(target_w, natural width) wide: never
\* wider than the target and never wider than the encoder's own image.
C12_QrWidth ==
    (upc = "done" /\ uIn.fn = "qr" /\ uOut.ok) =>
        LET natural == QrNatural(uIn.version)
        IN  /\ natural.ok
            /\ uOut.w = Min(uIn.target_w, natural.w)
            /\ uOut.w <= uIn.target_w
            /\ uOut.w <= natural.w

\* The code's own image is 225 wide and 300 were asked for: it stays 225.
C12_Witness ==
    /\ upc = "done" /\ uIn.fn = "qr"
    /\ uIn.version = 1 /\ uIn.target_w = 300
    /\ uOut.ok /\ uOut.w = 225

\* C13: for every source logo w x h and every box (max_w, max_h) the logo
\* load_logo returns is never wider or higher than the source and never
\* wider than max_w or higher than max_h; a source that fits the box is
\* returned at its own size (the scale is capped at 1.0).
C13_LogoNeverUpscaled ==
    (upc = "done" /\ uIn.fn = "logo" /\ uOut.ok) =>
        /\ uOut.w <= uIn.src.w
        /\ uOut.h <= uIn.src.h
        /\ uOut.w <= uIn.max_w
        /\ uOut.h <= uIn.max_h
        /\ (uIn.src.w <= uIn.max_w /\ uIn.src.h <= uIn.max_h)
              => (uOut.w = uIn.src.w /\ uOut.h = uIn.src.h)

\* A 100 x 50 logo in a 562 x 160 box stays 100 x 50.
C13_Witness ==
    /\ upc = "done" /\ uIn.fn = "logo"
    /\ uIn.src = Img(100, 50) /\ uIn.max_w = 562 /\ uIn.max_h = 160
    /\ uOut = Img(100, 50)

\* C17 (as amended): normalising a w x h photo to the working width ww keeps
\* the aspect ratio by truncation: the result is exactly ww wide and
\* int(h * (ww / w)) high, which is floor(h * ww / w), or one less where
\* h * ww / w is an integer that the double product falls short of; with
\* paper_width 576 and margin 7, ww is 562 and an 800 x 600 photo comes out
\* 421 high (600 * 562 / 800 = 421.5 is truncated, not rounded).
C17_PhotoHeightTruncated ==
    (upc = "done" /\ uIn.fn = "fit" /\ uOut.ok) =>
        LET ww == uIn.paper_width - 2 * uIn.margin
            w == uIn.photo.w
            h == uIn.photo.h
            exact == (h * ww) \div w
        IN  /\ uOut.w = ww
            /\ uOut.h \in {exact, exact - 1}
            /\ ((h * ww) % w # 0) => uOut.h = exact
            /\ (w = ww) => uOut.h = h
            /\ (uIn.paper_width = 576 /\ uIn.margin = 7 /\ uIn.photo = Photo800)
                  => (ww = 562 /\ uOut.h = 421)

C17_Witness ==
    /\ upc = "done" /\ uIn.fn = "fit"
    /\ uIn.paper_width = 576 /\ uIn.margin = 7 /\ uIn.photo = Photo800
    /\ uOut = Img(562, 421)

\* C17 as claimed: the height is round(h * ww / w).
C17_AsClaimed ==
    (upc = "done" /\ uIn.fn = "fit" /\ uOut.ok) =>
        /\ uOut.w = uIn.paper_width - 2 * uIn.margin
        /\ uOut.h = RoundDiv(uIn.photo.h * (uIn.paper_width - 2 * uIn.margin), uIn.photo.w)

(***************************************************************************)
(* Claims about the 1bpp conversion and the raster frame.                  *)
(***************************************************************************)
Converted == rpc \in {"pack", "header", "done"}

\* C4 (as amended): for every requested raster width w >= 8 the conversion
\* succeeds, the width used for encoding is floor(w / 8) * 8 and row_bytes
\* is that width divided by 8 (560 stays 560, 563 becomes 560, no error).
\* A width of 0 is "no target": the image keeps its own width.
C4_AlignedWidth ==
    rIn.target_width >= 8 =>
        /\ rpc # "raised"
        /\ Converted =>
              /\ bw.w = (rIn.target_width \div 8) * 8
              /\ rIn.target_width \in {560, 563} => bw.w = 560
        /\ rpc \in {"header", "done"} =>
              Len(rdata) = (((rIn.target_width \div 8) * 8) \div 8) * bw.h

C4_Witness ==
    /\ rpc = "done"
    /\ rIn.target_width = 563
    /\ rIn.im.w = 576
    /\ bw.w = 560
    /\ frame[5] = 70

\* C4 as claimed: for every requested width, 0 included.
C4_AsClaimed ==
    Converted => bw.w = (rIn.target_width \div 8) * 8

\* C5 (as amended): for every image and every non-zero target_width the
\* bitmap that is bit-packed has a width that is a multiple of 8.
C5_WidthMultipleOf8 ==
    (Converted /\ rIn.target_width # 0) => bw.w % 8 = 0

C5_Witness ==
    /\ rpc = "done"
    /\ rIn.im.w = 13 /\ rIn.target_width = 13
    /\ bw.w = 8

\* C5 as claimed: for every target_width.
C5_AsClaimed ==
    Converted => bw.w % 8 = 0

\* Bit x of row y of the frame's scanlines, most significant bit first.
FrameBit(f, rb, x, y) == (f[8 + y * rb + (x \div 8) + 1] \div (2 ^ (7 - (x % 8)))) % 2

\* C6: unpacking the frame's scanlines row-major, most significant bit
\* first, 1 = black, and keeping the first `width` bits of every row gives
\* back the bitmap; the padding bits of a trailing partial byte are 0.
C6_PackRoundTrip ==
    rpc = "done" =>
        LET rb == (bw.w + 7) \div 8
        IN  /\ Len(frame) = 8 + rb * bw.h
            /\ \A y \in 0..(bw.h - 1) :
                  /\ \A x \in 0..(bw.w - 1) :
                        (FrameBit(frame, rb, x, y) = 1) <=> (px(bw, x, y) = 0)
                  /\ \A x \in bw.w..(8 * rb - 1) : FrameBit(frame, rb, x, y) = 0

C6_Witness ==
    /\ rpc = "done"
    /\ bw.w = 13 /\ bw.h = 2
    /\ bw.pat = [i \in 0..(PatternPeriod - 1) |-> IF i % 2 = 0 THEN 0 ELSE 255]
    /\ frame[9] = 173 /\ frame[10] = 104

\* C7: the frame starts 1D 76 30 00, bytes 4-5 and 6-7 decode (little
\* endian) to row_bytes and to the height, and it is 8 + row_bytes * h long.
C7_HeaderDecodes ==
    rpc = "done" =>
        LET rb == (bw.w + 7) \div 8
        IN  /\ SubSeq(frame, 1, 4) = <<29, 118, 48, 0>>
            /\ frame[5] + 256 * frame[6] = rb
            /\ frame[7] + 256 * frame[8] = bw.h
            /\ Len(frame) = 8 + rb * bw.h

(***************************************************************************)
(* Claims about the serial transport.                                      *)
(***************************************************************************)
RECURSIVE ConcatBytes(_, _, _)
ConcatBytes(log, from, to) ==
    IF from > to THEN <<>> ELSE log[from].bytes \o ConcatBytes(log, from + 1, to)

\* C8: a successful print_image_usb writes, in this order, 1B 40, 1B 61 01,
\* 1B 32, the raster frame in consecutive chunks of at most 2048 bytes whose
\* concatenation is the frame, feed_after bytes 0A (none if feed_after <= 0),
\* 1D 56 42 00 iff do_cut, and then flushes; nothing else is written.
C8_WriteSequence ==
    (ppc = "done" /\ pRes.ok) =>
        LET f == IF pIn.feed_after > 0 THEN 1 ELSE 0
            c == IF pIn.do_cut THEN 1 ELSE 0
            n == Len(serLog) - 6 - f - c
        IN  /\ n >= 1
            /\ serLog[1].op = "open"
            /\ \A k \in 2..(4 + n + f + c) : serLog[k].op = "write"
            /\ serLog[2].bytes = <<27, 64>>
            /\ serLog[3].bytes = <<27, 97, 1>>
            /\ serLog[4].bytes = <<27, 50>>
            /\ \A k \in 5..(4 + n) :
                  Len(serLog[k].bytes) >= 1 /\ Len(serLog[k].bytes) <= 2048
            /\ ConcatBytes(serLog, 5, 4 + n) = pdata
            /\ SubSeq(pdata, 1, 4) = <<29, 118, 48, 0>>
            /\ f = 1 => serLog[5 + n].bytes = [i \in 1..pIn.feed_after |-> 10]
            /\ c = 1 => serLog[5 + n + f].bytes = <<29, 86, 66, 0>>
            /\ serLog[5 + n + f + c].op = "flush"
            /\ serLog[6 + n + f + c].op = "close"

C8_Witness ==
    /\ ppc = "done" /\ pRes.ok
    /\ Len(pdata) = 4104
    /\ pIn.do_cut /\ pIn.feed_after = 3
    /\ Len(serLog) = 11
    /\ Len(serLog[7].bytes) = 8

\* The path the call is to open: the explicit device, else the lexically
\* first of the ports that are there.
SelectedDevice(in) ==
    IF in.device # 0 THEN in.device
    ELSE CHOOSE d \in in.ports : \A e \in in.ports : d <= e

NothingToSelect(in) == ~in.have_pyserial \/ (in.device = 0 /\ in.ports = {})

\* C14: with an explicit device exactly that path is opened; without one the
\* lexically first discovered candidate is; without a serial capability, or
\* with neither device nor candidate, the call fails with a reason, opens
\* nothing and writes nothing.  Each call selects afresh: the device the
\* call before had open plays no part.
C14_DeviceSelection ==
    /\ \A k \in 1..Len(serLog) :
          ~NothingToSelect(pIn) /\ serLog[k].dev = SelectedDevice(pIn)
    /\ ser.open => (~NothingToSelect(pIn) /\ ser.dev = SelectedDevice(pIn))
    /\ (ppc = "open") => (~NothingToSelect(pIn) /\ dev = SelectedDevice(pIn))
    /\ (ppc = "done" /\ NothingToSelect(pIn)) =>
          /\ ~pRes.ok
          /\ pRes.msg \in {"no_pyserial", "image_open_failed", "image_convert_failed",
                           "no_port"}
          /\ serLog = <<>>
          /\ ~ser.open
    /\ (ppc = "done" /\ pRes.msg = "no_port") => (pIn.device = 0 /\ pIn.ports = {})
    /\ (ppc = "done" /\ pRes.msg = "no_pyserial") => ~pIn.have_pyserial

\* The call before had the explicit device 9 open; this one, given no
\* device, has selected port 2, the first of the two plugged in.
C14_Witness ==
    /\ ppc = "open"
    /\ pIn.device = 0 /\ pIn.ports = {2, 4}
    /\ dev = 2
    /\ ser = [open |-> FALSE, dev |-> 9]

\* A call that was given nothing, after one that had a port open.
C14_WitnessNoPort ==
    /\ ppc = "done"
    /\ pIn.have_pyserial /\ pIn.device = 0 /\ pIn.ports = {}
    /\ pRes = PrintResult(FALSE, "no_port")
    /\ ser = [open |-> FALSE, dev |-> 9]
    /\ serLog = <<>>

OpensIn(log) == {k \in 1..Len(log) : log[k].op = "open"}
ClosesIn(log) == {k \in 1..Len(log) : log[k].op = "close"}

\* C15: in every call the port is opened at most once, every write and the
\* flush happen while it is open, and it is closed when the call returns,
\* after a success as after a failed open, write or flush; so no handle is
\* open when a call starts, and every call that writes has opened its own.
C15_HandleLifecycle ==
    /\ Cardinality(OpensIn(serLog)) <= 1
    /\ Cardinality(ClosesIn(serLog)) <= 1
    /\ serLog # <<>> => serLog[1].op = "open"
    /\ \A k \in ClosesIn(serLog) : k = Len(serLog) /\ k > 1
    /\ ser.open <=> (OpensIn(serLog) # {} /\ ClosesIn(serLog) = {})
    /\ (ppc \in {"start", "load", "select", "open"}) => (~ser.open /\ serLog = <<>>)
    /\ (ppc \in {"init", "center", "spacing", "raster", "feed", "cut", "flush",
                 "close", "abort"}) => ser.open
    /\ (ppc = "done") =>
          /\ ~ser.open
          /\ (serLog # <<>>) => serLog[Len(serLog)].op = "close"
          /\ pRes.ok => serLog # <<>>

\* A write failed after the port was opened and the frame's header went out:
\* the call has returned the failure and the port is closed.
C15_Witness ==
    /\ ppc = "done"
    /\ ~pRes.ok /\ pRes.msg = "usb_output_failed"
    /\ Len(serLog) >= 5
    /\ serLog[Len(serLog)].op = "close"
    /\ ~ser.open

\* The open itself failed: nothing was opened, nothing is left open.
C15_WitnessOpenFailed ==
    /\ ppc = "done"
    /\ pRes.msg = "usb_output_failed"
    /\ serLog = <<>>
    /\ ~ser.open

\* C9: when printing is enabled with copies = n, the copies are printed one
\* after another and the loop stops at the first copy that fails: no call
\* of print_image_usb follows a failed one, so if the k-th copy is the first
\* to fail there were exactly k calls, and the handler reports k - 1
\* succeeded out of n with the failing call's message; if no copy fails
\* there were exactly n calls and n copies are reported.
C9_MultiCopy ==
    /\ \A j \in 1..(Len(callLog) - 1) : callLog[j].ok
    /\ (bpc = "autoreset" /\ chk_printer) =>
          LET k == Len(callLog)
          IN  /\ copies = copies_combo
              /\ k \in 1..copies
              /\ IF callLog[k].ok
                 THEN /\ k = copies
                      /\ success_cnt = copies
                      /\ status = Status("printed", FALSE, copies, 0, "")
                 ELSE /\ success_cnt = k - 1
                      /\ status = Status("partly_printed", TRUE, k - 1, copies,
                                         callLog[k].msg)

\* Five copies were asked for, the third failed on the serial port.
C9_Witness ==
    /\ bpc = "autoreset"
    /\ chk_printer
    /\ copies = 5
    /\ Len(callLog) = 3
    /\ callLog[3] = PrintResult(FALSE, "usb_output_failed")
    /\ success_cnt = 2
    /\ status = Status("partly_printed", TRUE, 2, 5, "usb_output_failed")

\* C16: when composing the receipt fails the failure is reported, no
\* composite is saved and print_image_usb is not called; print_image_usb is
\* called only once the composite was composed and saved; and a failed copy
\* leaves the saved composite where it is.
C16_FailureStaging ==
    /\ (status.kind = "compose_failed") =>
          (status.err /\ ~saved /\ callLog = <<>> /\ bpc \in {"idle", "events"})
    /\ (bpc \in {"compose", "composing", "save"}) => (~saved /\ callLog = <<>>)
    /\ (bpc = "save") => receipt.ok
    /\ (bpc \in {"print", "loop", "report", "autoreset"}) => (saved /\ receipt.ok)
    /\ (callLog # <<>>) => (saved /\ receipt.ok)

\* The code's payload could not be encoded: reported, nothing saved.
C16_Witness ==
    /\ bpc = "idle"
    /\ status = Status("compose_failed", TRUE, 0, 0, "")
    /\ ~saved
    /\ Len(captured_images) = 2

\* No port was found for the first copy: the composite is on disk.
C16_WitnessNoPort ==
    /\ bpc = "autoreset"
    /\ callLog = <<PrintResult(FALSE, "no_port")>>
    /\ status.kind = "partly_printed"
    /\ saved /\ receipt.ok

AllCopiesPrinted ==
    /\ Len(callLog) = copies
    /\ \A j \in 1..Len(callLog) : callLog[j].ok

C18_WitnessFailed ==
    /\ bpc = "idle"
    /\ chk_auto_reset /\ chk_printer
    /\ status.kind = "partly_printed"
    /\ timers = 0
    /\ Len(captured_images) = 2

\* C19: under every interleaving of capture, print and reset events, those
\* that processEvents() dispatches inside _print_both included, there are
\* never more than max_shots = 2 captured photos and every composition that
\* _print_both starts is given exactly two photos.
C19_TwoPhotosComposed ==
    /\ Len(captured_images) <= MAX_SHOTS
    /\ (bpc \in {"compose", "composing"}) => Len(photos_pil) = MAX_SHOTS

====
